---- MODULE Spec2Model ----
(***************************************************************************)
(* A model of deepseek.py: the TextSanitizer (sanitize, its error log),    *)
(* the DeepSeekChat history (add_message, stream_chat, save_conversation)  *)
(* and the input loop of main.                                             *)
(*                                                                         *)
(* Text is a sequence of characters; a character is one representative of  *)
(* a class of code points, named by a string:                              *)
(*   "a" "e" "," "?" "[" "]" "_" " " "\\" "u" "x" "U" and the hex digits   *)
(*            ASCII characters                                             *)
(*   "wide"   a fullwidth form, U+FF0C, whose NFKC image is ","            *)
(*   "cjk"    a CJK ideograph, U+4E2D                                      *)
(*   "acute"  the combining acute accent, U+0301                           *)
(*   "eacute" the precomposed U+00E9, NFKC image of "e" "acute"            *)
(*   "hi"     a lone high surrogate, U+D800                                *)
(*   "lo"     a lone low surrogate, U+DC00                                 *)
(*   "astral" the code point U+10000 that the pair "hi" "lo" stands for    *)
(*   "fffd"   the replacement character U+FFFD                             *)
(*   "raiser" content on which a stage of the pipeline raises; no str is   *)
(*            known to make ftfy, re or the codecs raise, the class is     *)
(*            there so that the handler of lines 37-39 is exercised        *)
(***************************************************************************)
EXTENDS Integers, Sequences, FiniteSets, TLC

VARIABLES
    messages,    \* DeepSeekChat.messages: sequence of [role, content]
    error_log,   \* TextSanitizer.error_log: sequence of [original, cleaned]
    pc,          \* where main is: "input", "chat", "final", "done", "crashed"
    attempt,     \* stream_chat's local attempt counter
    inputs,      \* number of non-blank lines read so far (bounded by MaxInputs)
    faults,      \* number of requests the remote end has failed (bounded by MaxFaults)
    added,       \* history variable: every message add_message has appended, in order
    atCall,      \* history variable: messages when the current stream_chat was called
    outcomes,    \* history variable: outcome of each attempt of the current stream_chat
    requests,    \* history variable: streaming requests issued by the current stream_chat
    reported,    \* history variable: error messages printed by the current stream_chat
    saved,       \* result of save_conversation: "none" (not called), "false", "true"
    files,       \* the files save_conversation has written
    title,       \* what _generate_title returned to save_conversation
    titleSample, \* the messages sent with the title request, <<>> when none was sent
    base_name,   \* save_conversation's base_name, <<>> when no file was written
    ending,      \* history variable: how the loop of main was left: "none", "exit", "interrupt"
    sIn,         \* sanitizer harness: the text given to sanitize
    sRes,        \* sanitizer harness: what the last call of sanitize did
    sStep,       \* sanitizer harness: number of calls of sanitize made
    fIn,         \* filename harness: the title given to _sanitize_filename
    fRes         \* filename harness: whether it was called, and what it returned

vars == <<messages, error_log, pc, attempt, inputs, faults, added, atCall, outcomes,
          requests, reported, saved, files, title, titleSample, base_name, ending,
          sIn, sRes, sStep, fIn, fRes>>

sessionVars == <<messages, pc, attempt, inputs, faults, added, atCall, outcomes,
                 requests, reported, saved, files, title, titleSample, base_name,
                 ending>>

harnessVars == <<sIn, sRes, sStep, fIn, fRes>>

sanitizeVars == <<sIn, sRes, sStep>>

filenameVars == <<fIn, fRes>>

-----------------------------------------------------------------------------
(* Bounds of the model *)

\* longest text given to sanitize by the harness
MaxLen == 3
\* longest free part at either end of a title given to _sanitize_filename
MaxEdge == 2
\* number of non-blank lines the user types in one session
MaxInputs == 6
\* number of requests the remote end fails in one session
MaxFaults == 3

(* Constants of the program *)

max_retries == 3
MaxHistory == 11
KeepTurns == 10
SaveThreshold == 5
FilenameLimit == 30

-----------------------------------------------------------------------------
(* Characters *)

HexDigits == {"0", "1", "2", "3", "4", "8", "9", "c", "d", "e", "f"}

Ascii == {"a", "e", ",", "?", "[", "]", "_", " ", "\\", "u", "x", "U"} \cup HexDigits

Surrogates == {"hi", "lo"}

\* str.encode('unicode_escape').decode() of one character
EscapeChar(c) ==
    CASE c = "\\"     -> <<"\\", "\\">>
      [] c = "wide"   -> <<"\\", "u", "f", "f", "0", "c">>
      [] c = "cjk"    -> <<"\\", "u", "4", "e", "2", "d">>
      [] c = "acute"  -> <<"\\", "u", "0", "3", "0", "1">>
      [] c = "eacute" -> <<"\\", "x", "e", "9">>
      [] c = "hi"     -> <<"\\", "u", "d", "8", "0", "0">>
      [] c = "lo"     -> <<"\\", "u", "d", "c", "0", "0">>
      [] c = "astral" -> <<"\\", "U", "0", "0", "0", "1", "0", "0", "0", "0">>
      [] c = "fffd"   -> <<"\\", "u", "f", "f", "f", "d">>
      [] OTHER        -> <<c>>

RECURSIVE UnicodeEscape(_)
UnicodeEscape(text) ==
    IF text = <<>> THEN <<>>
    ELSE EscapeChar(Head(text)) \o UnicodeEscape(Tail(text))

-----------------------------------------------------------------------------
(* TextSanitizer *)

\* ftfy's fix_surrogates step of fix_text: a high surrogate followed by a low
\* one becomes the character the pair stands for, any other surrogate U+FFFD
RECURSIVE FixSurrogates(_)
FixSurrogates(text) ==
    IF text = <<>> THEN <<>>
    ELSE IF Len(text) >= 2 /\ text[1] = "hi" /\ text[2] = "lo"
         THEN <<"astral">> \o FixSurrogates(SubSeq(text, 3, Len(text)))
    ELSE IF Head(text) \in Surrogates
         THEN <<"fffd">> \o FixSurrogates(Tail(text))
    ELSE <<Head(text)>> \o FixSurrogates(Tail(text))

\* the compatibility decomposition of NFKC
RECURSIVE Decompose(_)
Decompose(text) ==
    IF text = <<>> THEN <<>>
    ELSE (CASE Head(text) = "wide"   -> <<",">>
            [] Head(text) = "eacute" -> <<"e", "acute">>
            [] OTHER                 -> <<Head(text)>>) \o Decompose(Tail(text))

\* the canonical composition of NFKC
RECURSIVE Compose(_)
Compose(text) ==
    IF text = <<>> THEN <<>>
    ELSE IF Len(text) >= 2 /\ text[1] = "e" /\ text[2] = "acute"
         THEN <<"eacute">> \o Compose(SubSeq(text, 3, Len(text)))
    ELSE <<Head(text)>> \o Compose(Tail(text))

NFKC(text) == Compose(Decompose(text))

\* stage 1, line 21: fix_text(text, normalization='NFKC'). Of the steps of
\* ftfy those that act on the characters above are kept: fix_surrogates,
\* then the normalization (fix_character_width maps "wide" as NFKC does);
\* the texts hold no mojibake, HTML entity, control or terminal escape.
FixText(text) == NFKC(FixSurrogates(text))

\* stage 2, lines 24-28: every surrogate becomes the six characters \uXXXX
RECURSIVE EscapeSurrogates(_)
EscapeSurrogates(text) ==
    IF text = <<>> THEN <<>>
    ELSE (IF Head(text) \in Surrogates
          THEN <<"\\", "u">> \o SubSeq(EscapeChar(Head(text)), 3, 6)
          ELSE <<Head(text)>>) \o EscapeSurrogates(Tail(text))

\* stage 3, line 31: text.encode('utf-8', 'replace').decode('utf-8')
RECURSIVE RoundTrip(_)
RoundTrip(text) ==
    IF text = <<>> THEN <<>>
    ELSE (IF Head(text) \in Surrogates THEN <<"?">> ELSE <<Head(text)>>)
         \o RoundTrip(Tail(text))

\* a stage of the pipeline raises on this text
StageRaises(text) == \E i \in 1..Len(text) : text[i] = "raiser"

\* a pipeline that only normalizes: the surrogate handling is forgotten
PipelineNormalizesOnly(text) == NFKC(text)

\* lines 21-31
Pipeline(text) == RoundTrip(EscapeSurrogates(FixText(text)))

\* line 39
Sentinel == <<"[", "cjk", "]">>

\* str(e) of the exception a stage raised, and of the one open() raised
StageErrorText == <<"a">>
DiskErrorText == <<"e">>

\* _log_error, lines 50-55: error_log after the record is appended in
\* memory; the write to char_errors.log that follows (lines 56-58) raises
\* when the disk refuses
LogError(log, original, cleaned) ==
    Append(log, [original |-> UnicodeEscape(original),
                 cleaned  |-> UnicodeEscape(cleaned)])

\* What a call of sanitize did: the text returned, whether the call raised
\* instead of returning, and error_log afterwards.
\* Lines 37-39, the handler of sanitize when its try block raised: it logs,
\* and an exception of _log_error leaves sanitize
SanitizeHandler(text, log, errText, diskOk) ==
    [out |-> Sentinel, raised |-> ~diskOk, log |-> LogError(log, text, errText)]

\* lines 33-36, with cleaned the result of the pipeline
SanitizeCleaned(text, cleaned, log, diskOk) ==
    IF cleaned = text THEN [out |-> cleaned, raised |-> FALSE, log |-> log]
    ELSE IF diskOk THEN [out |-> cleaned, raised |-> FALSE,
                         log |-> LogError(log, text, cleaned)]
    ELSE SanitizeHandler(text, LogError(log, text, cleaned), DiskErrorText, diskOk)

\* sanitize(text) with error_log = log, lines 15-39
Sanitize(text, log, diskOk) ==
    IF text = <<>> THEN [out |-> text, raised |-> FALSE, log |-> log]
    ELSE IF StageRaises(text) THEN SanitizeHandler(text, log, StageErrorText, diskOk)
    ELSE SanitizeCleaned(text, Pipeline(text), log, diskOk)

\* one step of sanitize_message_history: acc is what the steps before did,
\* h what sanitize did with the content of msg
SanitizeEntry(acc, msg, h) ==
    [out    |-> IF h.raised THEN acc.out
                ELSE Append(acc.out, [role |-> msg.role, content |-> h.out]),
     raised |-> h.raised,
     log    |-> h.log]

RECURSIVE SanitizeEntries(_, _, _)
SanitizeEntries(msgs, acc, diskOk) ==
    IF msgs = <<>> \/ acc.raised THEN acc
    ELSE SanitizeEntries(Tail(msgs),
                         SanitizeEntry(acc, Head(msgs),
                                       Sanitize(Head(msgs).content, acc.log, diskOk)),
                         diskOk)

\* sanitize_message_history, lines 43-46: sanitize applied to each content,
\* left to right; the first call that raises ends it
SanitizeHistory(msgs, log, diskOk) ==
    SanitizeEntries(msgs, [out |-> <<>>, raised |-> FALSE, log |-> log], diskOk)

-----------------------------------------------------------------------------
(* DeepSeekChat: the history *)

\* line 80: the system prompt, Chinese text with fullwidth punctuation
SystemPrompt == <<"cjk", "wide", "cjk">>

\* line 128: "\n" + "请求出错：" + str(e), with its fullwidth colon
ErrorMessage == <<"cjk", "wide", "a">>

LastN(s, k) == SubSeq(s, Len(s) - k + 1, Len(s))

\* add_message trimming to the last 11 entries, the system message among the
\* entries dropped
AddMessageDropsSystem(msgs, role, clean) ==
    LET appended == Append(msgs, [role |-> role, content |-> clean])
    IN  IF Len(appended) > MaxHistory THEN LastN(appended, MaxHistory) ELSE appended

\* add_message trimming from the wrong end: the newest entry is dropped
AddMessageKeepsOldest(msgs, role, clean) ==
    LET appended == Append(msgs, [role |-> role, content |-> clean])
    IN  IF Len(appended) > MaxHistory THEN SubSeq(appended, 1, MaxHistory) ELSE appended

\* add_message keeping one turn-message too few when it trims
AddMessageKeepsNine(msgs, role, clean) ==
    LET appended == Append(msgs, [role |-> role, content |-> clean])
    IN  IF Len(appended) > MaxHistory
        THEN <<appended[1]>> \o LastN(appended, KeepTurns - 1)
        ELSE appended

\* add_message, lines 86-92, once the content is sanitized: append, then trim
AddMessage(msgs, role, clean) ==
    LET appended == Append(msgs, [role |-> role, content |-> clean])
    IN  IF Len(appended) > MaxHistory
        THEN <<appended[1]>> \o LastN(appended, KeepTurns)
        ELSE appended

\* "".join(parts)
RECURSIVE Join(_)
Join(parts) == IF parts = <<>> THEN <<>> ELSE Head(parts) \o Join(Tail(parts))

\* lines 113-117, one chunk: a chunk without content is skipped, any other
\* is sanitized and kept
ConsumeChunk(acc, h) ==
    [parts  |-> IF h.raised THEN acc.parts ELSE Append(acc.parts, h.out),
     raised |-> h.raised,
     log    |-> h.log]

\* lines 112-117: the first call of sanitize that raises ends the loop
RECURSIVE ConsumeChunks(_, _, _)
ConsumeChunks(chunks, acc, diskOk) ==
    IF chunks = <<>> \/ acc.raised THEN acc
    ELSE IF Head(chunks) = <<>> THEN ConsumeChunks(Tail(chunks), acc, diskOk)
    ELSE ConsumeChunks(Tail(chunks),
                       ConsumeChunk(acc, Sanitize(Head(chunks), acc.log, diskOk)),
                       diskOk)

\* How the try block of stream_chat ended: kind is "ok" (line 121 reached),
\* "encoding" (UnicodeEncodeError) or "other" (any other Exception; an
\* exception of sanitize is an OSError), requested tells whether the request
\* of line 101 was made, msgs is the history and log the error log it leaves
TryFailed(kind, requested, msgs, log) ==
    [kind |-> kind, requested |-> requested, log |-> log, msgs |-> msgs,
     content |-> <<>>]

\* line 120, add_message("assistant", ...), with s what its sanitize did
TryAdd(msgs, s) ==
    IF s.raised THEN TryFailed("other", TRUE, msgs, s.log)
    ELSE [kind |-> "ok", requested |-> TRUE, log |-> s.log,
          msgs |-> AddMessage(msgs, "assistant", s.out), content |-> s.out]

\* a stream loop that records the partial response before the failure leaves it
TryStreamKeepsPartial(msgs, c, fault, diskOk) ==
    IF c.raised THEN TryFailed("other", TRUE, msgs, c.log)
    ELSE IF fault # "none"
         THEN TryFailed(fault, TRUE, AddMessage(msgs, "assistant", Join(c.parts)), c.log)
    ELSE TryAdd(msgs, Sanitize(Join(c.parts), c.log, diskOk))

\* a stream loop that stores the joined fragments as they are
TryStreamJoinsOnly(msgs, c, fault, diskOk) ==
    IF c.raised THEN TryFailed("other", TRUE, msgs, c.log)
    ELSE IF fault # "none" THEN TryFailed(fault, TRUE, msgs, c.log)
    ELSE TryAdd(msgs, [out |-> Join(c.parts), raised |-> FALSE, log |-> c.log])

\* lines 110-120, with c what the loop over the chunks did: the remote end
\* fails with fault after the chunks it delivered, unless fault is "none"
TryStream(msgs, c, fault, diskOk) ==
    IF c.raised THEN TryFailed("other", TRUE, msgs, c.log)
    ELSE IF fault # "none" THEN TryFailed(fault, TRUE, msgs, c.log)
    ELSE TryAdd(msgs, Sanitize(Join(c.parts), c.log, diskOk))

\* lines 101-120, with safe what sanitize_message_history did at line 99
TryRequest(msgs, safe, stream, k, fault, diskOk) ==
    IF safe.raised THEN TryFailed("other", FALSE, msgs, safe.log)
    ELSE TryStream(msgs,
                   ConsumeChunks(SubSeq(stream, 1, k),
                                 [parts |-> <<>>, raised |-> FALSE, log |-> safe.log],
                                 diskOk),
                   fault, diskOk)

\* The try block of stream_chat, lines 99-121. The remote end delivers the
\* first k chunks of stream and then fails with fault ("encoding": a
\* UnicodeEncodeError, "other": any other Exception, a timeout included), or
\* delivers them all when fault is "none".
TryBlock(msgs, log, stream, k, fault, diskOk) ==
    TryRequest(msgs, SanitizeHistory(msgs, log, diskOk), stream, k, fault, diskOk)

\* the gate the comment of line 138 describes: system + user + assistant
ShouldSaveThree(msgs) == Len(msgs) >= 3

\* should_save_conversation, line 138
ShouldSave(msgs) == Len(msgs) >= SaveThreshold

\* _sanitize_filename, lines 227-229: keep CJK ideographs, ASCII letters,
\* digits, underscore and space, strip, truncate
FilenameChars == {"cjk", "a", "e", "u", "x", "U", "c", "d", "f", "_", " ",
                  "0", "1", "2", "3", "4", "8", "9"}

RECURSIVE KeepFilenameCharsAscii(_)
KeepFilenameCharsAscii(text) ==
    IF text = <<>> THEN <<>>
    ELSE (IF Head(text) \in FilenameChars \cup Ascii THEN <<Head(text)>> ELSE <<>>)
         \o KeepFilenameCharsAscii(Tail(text))

RECURSIVE KeepFilenameChars(_)
KeepFilenameChars(text) ==
    IF text = <<>> THEN <<>>
    ELSE (IF Head(text) \in FilenameChars THEN <<Head(text)>> ELSE <<>>)
         \o KeepFilenameChars(Tail(text))

RECURSIVE LStrip(_)
LStrip(text) ==
    IF text # <<>> /\ Head(text) = " " THEN LStrip(Tail(text)) ELSE text

RECURSIVE RStrip(_)
RStrip(text) ==
    IF text # <<>> /\ text[Len(text)] = " "
    THEN RStrip(SubSeq(text, 1, Len(text) - 1)) ELSE text

Strip(text) == RStrip(LStrip(text))

Truncate(text, k) == SubSeq(text, 1, IF Len(text) < k THEN Len(text) ELSE k)

SanitizeFilenameUnstripped(raw) == Truncate(KeepFilenameChars(raw), FilenameLimit)

SanitizeFilename(raw) == Truncate(Strip(KeepFilenameChars(raw)), FilenameLimit)

NoTitle == [none |-> TRUE, text |-> <<>>]

TitleSampleTwoRounds(msgs) == SubSeq(msgs, 2, IF Len(msgs) < 5 THEN Len(msgs) ELSE 5)

\* line 191: self.messages[1:3]
TitleSample(msgs) == SubSeq(msgs, 2, IF Len(msgs) < 3 THEN Len(msgs) ELSE 3)

\* _generate_title, lines 189-221: reply is what the title request does,
\* kind "raises", "malformed" (no choices[0].message.content) or "title",
\* with the raw title as text
GenerateTitle(msgs, reply) ==
    IF TitleSample(msgs) = <<>> THEN NoTitle
    ELSE IF reply.kind # "title" THEN NoTitle
    ELSE [none |-> FALSE, text |-> SanitizeFilename(Strip(reply.text))]

\* line 150 with line 147: str(None) is "None", and the timestamp of line
\* 147 is one token
BaseName(t) ==
    (IF t.none THEN <<"N", "o", "n", "e">> ELSE t.text) \o <<"_", "timestamp">>

SaveNeedsTitle(t) ==
    IF t.none
    THEN [saved |-> "false", files |-> {}, base_name |-> <<>>]
    ELSE [saved |-> "true", files |-> {"json", "txt"}, base_name |-> BaseName(t)]

\* save_conversation past its gate, lines 147-184: both files are written
\* under base_name and True is returned
WriteFiles(t) ==
    [saved |-> "true", files |-> {"json", "txt"}, base_name |-> BaseName(t)]

NextAttemptStays(a) == a

\* line 124: attempt += 1
NextAttempt(a) == a + 1

-----------------------------------------------------------------------------
(* What the environment supplies *)

\* The lines the user types, neither blank nor exit/quit: line i of a session
\* is UserLine(i). One line is clean, one has a fullwidth form, one a
\* decomposed accent.
UserLines == << <<"a">>, <<"wide">>, <<"e", "acute">> >>

UserLine(i) == UserLines[((i - 1) % Len(UserLines)) + 1]

\* The response streams of the remote model, each a sequence of chunks: the
\* requests made for line i are answered with ReplyStream(i). One stream is
\* clean, one splits an accented letter over two chunks with an empty chunk
\* between them, one splits a surrogate pair over two chunks.
ReplyStreams == << << <<"a">> >>,
                   << <<"e">>, <<>>, <<"acute">> >>,
                   << <<"hi">>, <<"lo">> >> >>

ReplyStream(i) == ReplyStreams[((i - 1) % Len(ReplyStreams)) + 1]

\* the raw titles of the remote model
RawTitles == {<<" ", "cjk", ",", "a", " ">>}

TitleReplies ==
    {[kind |-> k, text |-> <<>>] : k \in {"raises", "malformed"}}
    \cup {[kind |-> "title", text |-> t] : t \in RawTitles}

\* the characters of the texts given to sanitize on its own
InputChars == {"a", "e", "wide", "cjk", "acute", "hi", "lo", "raiser"}

RECURSIVE TextsOfLen(_)
TextsOfLen(k) ==
    IF k = 0 THEN {<<>>}
    ELSE {Append(t, c) : t \in TextsOfLen(k - 1), c \in InputChars}

Texts == UNION {TextsOfLen(k) : k \in 0..MaxLen}

-----------------------------------------------------------------------------
(* The session: DeepSeekChat() and the loop of main *)

NoResult == [in |-> <<>>, out |-> <<>>, raised |-> FALSE, logged |-> 0]

NoFilename == [called |-> FALSE, out |-> <<>>]

\* __init__ and _initialize_session, lines 72-81, with a log that can be written
InitialHistory ==
    SanitizeHistory(<<[role |-> "system", content |-> SystemPrompt]>>, <<>>, TRUE)

Init ==
    /\ messages = InitialHistory.out
    /\ error_log = InitialHistory.log
    /\ pc = "input"
    /\ attempt = 0
    /\ inputs = 0
    /\ faults = 0
    /\ added = <<>>
    /\ atCall = InitialHistory.out
    /\ outcomes = <<>>
    /\ requests = 0
    /\ reported = 0
    /\ saved = "none"
    /\ files = {}
    /\ title = NoTitle
    /\ titleSample = <<>>
    /\ base_name = <<>>
    /\ ending = "none"
    /\ sIn = <<>>
    /\ sRes = NoResult
    /\ sStep = 0
    /\ fIn = <<>>
    /\ fRes = NoFilename

\* lines 247-254: a line that is neither blank nor exit/quit is added to the
\* history and stream_chat is entered; an exception of add_message reaches
\* the handler of line 265, which ends the program
UserInput ==
    /\ pc = "input"
    /\ inputs < MaxInputs
    /\ \E diskOk \in BOOLEAN :
         \E s \in {Sanitize(UserLine(inputs + 1), error_log, diskOk)} :
             /\ error_log' = s.log
             /\ inputs' = inputs + 1
             /\ IF s.raised
                THEN /\ pc' = "crashed"
                     /\ UNCHANGED <<messages, attempt, added, atCall, outcomes,
                                    requests, reported>>
                ELSE /\ messages' = AddMessage(messages, "user", s.out)
                     /\ added' = Append(added, [role |-> "user", content |-> s.out])
                     /\ pc' = "chat"
                     /\ attempt' = 0
                     /\ atCall' = messages'
                     /\ outcomes' = <<>>
                     /\ requests' = 0
                     /\ reported' = 0
    /\ UNCHANGED <<faults, saved, files, title, titleSample, base_name, ending,
                   harnessVars>>

\* lines 250-251: a blank line is ignored
BlankInput ==
    /\ pc = "input"
    /\ UNCHANGED vars

\* lines 248-249: exit or quit leaves the loop
ExitInput ==
    /\ pc = "input"
    /\ pc' = "final"
    /\ ending' = "exit"
    /\ UNCHANGED <<messages, error_log, attempt, inputs, faults, added, atCall, outcomes,
                   requests, reported, saved, files, title, titleSample, base_name,
                   harnessVars>>

InterruptExits ==
    /\ pc \in {"input", "chat"}
    /\ pc' = "done"
    /\ ending' = "interrupt"
    /\ UNCHANGED <<messages, error_log, attempt, inputs, faults, added, atCall, outcomes,
                   requests, reported, saved, files, title, titleSample, base_name,
                   harnessVars>>

\* lines 256-258: KeyboardInterrupt while reading input or inside stream_chat,
\* taken between two attempts (it is no Exception: both handlers of
\* stream_chat let it pass)
Interrupt ==
    /\ pc \in {"input", "chat"}
    /\ pc' = "final"
    /\ ending' = "interrupt"
    /\ UNCHANGED <<messages, error_log, attempt, inputs, faults, added, atCall, outcomes,
                   requests, reported, saved, files, title, titleSample, base_name,
                   harnessVars>>

\* lines 97-121: an attempt whose try block reaches line 121
StreamSucceeds ==
    /\ pc = "chat"
    /\ attempt < max_retries
    /\ \E diskOk \in BOOLEAN :
         \E t \in {TryBlock(messages, error_log, ReplyStream(inputs),
                            Len(ReplyStream(inputs)), "none", diskOk)} :
             /\ t.kind = "ok"
             /\ messages' = t.msgs
             /\ added' = Append(added, [role |-> "assistant", content |-> t.content])
             /\ error_log' = t.log
             /\ outcomes' = Append(outcomes, "ok")
             /\ requests' = requests + 1
    /\ pc' = "input"
    /\ UNCHANGED <<attempt, inputs, faults, atCall, reported, saved, files, title,
                   titleSample, base_name, ending, harnessVars>>

\* lines 123-126 and 132: an attempt that ends in UnicodeEncodeError; the
\* history is sanitized again and, at max_retries, stream_chat gives up
StreamEncodingError ==
    /\ pc = "chat"
    /\ attempt < max_retries
    /\ faults < MaxFaults
    /\ faults' = faults + 1
    /\ \E k \in 0..Len(ReplyStream(inputs)), diskOk \in BOOLEAN :
         \E t \in {TryBlock(messages, error_log, ReplyStream(inputs), k,
                            "encoding", diskOk)} :
            \E re \in {SanitizeHistory(t.msgs, t.log, diskOk)} :
                /\ t.kind = "encoding"
                /\ attempt' = NextAttempt(attempt)
                /\ error_log' = re.log
                /\ outcomes' = Append(outcomes, "encoding")
                /\ requests' = requests + 1
                /\ IF re.raised
                   THEN /\ pc' = "crashed"
                        /\ messages' = t.msgs
                   ELSE /\ messages' = re.out
                        /\ pc' = IF attempt' < max_retries THEN "chat" ELSE "input"
    /\ UNCHANGED <<inputs, added, atCall, reported, saved, files, title,
                   titleSample, base_name, ending, harnessVars>>

\* lines 127-130: an attempt that ends in any other Exception; the error
\* message is sanitized and printed, and an exception of that sanitize
\* leaves stream_chat and ends the program at line 265
StreamOtherError ==
    /\ pc = "chat"
    /\ attempt < max_retries
    /\ \E k \in 0..Len(ReplyStream(inputs)), fault \in {"none", "encoding", "other"},
          diskOk \in BOOLEAN :
         /\ fault = "none" => k = Len(ReplyStream(inputs))
         /\ fault # "none" => faults < MaxFaults
         /\ faults' = faults + (IF fault = "none" THEN 0 ELSE 1)
         /\ \E t \in {TryBlock(messages, error_log, ReplyStream(inputs), k,
                               fault, diskOk)} :
              \E m \in {Sanitize(ErrorMessage, t.log, diskOk)} :
                /\ t.kind = "other"
                /\ error_log' = m.log
                /\ outcomes' = Append(outcomes, "other")
                /\ requests' = requests + (IF t.requested THEN 1 ELSE 0)
                /\ reported' = reported + (IF m.raised THEN 0 ELSE 1)
                /\ pc' = IF m.raised THEN "crashed" ELSE "input"
                /\ messages' = t.msgs
    /\ UNCHANGED <<attempt, inputs, added, atCall, saved, files, title,
                   titleSample, base_name, ending, harnessVars>>

\* lines 260-263 and save_conversation, lines 141-184
SaveConversation ==
    /\ pc = "final"
    /\ pc' = "done"
    /\ IF ~ShouldSave(messages)
       THEN /\ saved' = "false"
            /\ UNCHANGED <<files, title, titleSample, base_name>>
       ELSE \E reply \in TitleReplies :
              \E w \in {WriteFiles(GenerateTitle(messages, reply))} :
                /\ title' = GenerateTitle(messages, reply)
                /\ titleSample' = TitleSample(messages)
                /\ base_name' = w.base_name
                /\ files' = w.files
                /\ saved' = w.saved
    /\ UNCHANGED <<messages, error_log, attempt, inputs, faults, added, atCall, outcomes,
                   requests, reported, ending, harnessVars>>

Next ==
    \/ UserInput
    \/ BlankInput
    \/ ExitInput
    \/ Interrupt
    \/ StreamSucceeds
    \/ StreamEncodingError
    \/ StreamOtherError
    \/ SaveConversation

Spec == Init /\ [][Next]_vars

\* main is one sequential thread: once the loop is left, lines 260-263 run.
\* Nothing obliges the user to type, to leave or to interrupt.
FairSpec == Spec /\ WF_vars(SaveConversation)

-----------------------------------------------------------------------------
(* The sanitizer on its own: sanitize applied to a text, then to its result *)

InitSanitize ==
    /\ sIn \in Texts
    /\ sRes = NoResult
    /\ sStep = 0
    /\ fIn = <<>>
    /\ fRes = NoFilename
    /\ error_log = <<>>
    /\ messages = <<>>
    /\ pc = "sanitize"
    /\ attempt = 0
    /\ inputs = 0
    /\ faults = 0
    /\ added = <<>>
    /\ atCall = <<>>
    /\ outcomes = <<>>
    /\ requests = 0
    /\ reported = 0
    /\ saved = "none"
    /\ files = {}
    /\ title = NoTitle
    /\ titleSample = <<>>
    /\ base_name = <<>>
    /\ ending = "none"

\* one call of sanitize: of sIn first, then of what the call before returned
CallSanitize ==
    /\ pc = "sanitize"
    /\ sStep < 2
    /\ sStep > 0 => ~sRes.raised
    /\ \E diskOk \in BOOLEAN :
         \E text \in {IF sStep = 0 THEN sIn ELSE sRes.out} :
           \E r \in {Sanitize(text, error_log, diskOk)} :
             /\ sRes' = [in |-> text, out |-> r.out, raised |-> r.raised,
                         logged |-> Len(r.log) - Len(error_log)]
             /\ error_log' = r.log
    /\ sStep' = sStep + 1
    /\ UNCHANGED <<sIn, sessionVars, filenameVars>>

NextSanitize == CallSanitize

SpecSanitize == InitSanitize /\ [][NextSanitize]_vars

-----------------------------------------------------------------------------
(* _sanitize_filename on its own: applied once to a title *)

\* The titles: a run of one character between two short free parts. The runs
\* are empty or bring the title to the neighbourhood of the 30 characters of
\* line 229, on either side of it.
TitleEdgeChars == {"a", " ", ","}

TitleRunChars == {"a", " ", "cjk", ","}

RECURSIVE EdgesOfLen(_)
EdgesOfLen(k) ==
    IF k = 0 THEN {<<>>}
    ELSE {Append(t, c) : t \in EdgesOfLen(k - 1), c \in TitleEdgeChars}

Edges == UNION {EdgesOfLen(k) : k \in 0..MaxEdge}

RECURSIVE Repeat(_, _)
Repeat(c, n) == IF n = 0 THEN <<>> ELSE <<c>> \o Repeat(c, n - 1)

RunLengths == {0} \cup ((FilenameLimit - MaxEdge - 1)..(FilenameLimit + 1))

Runs == {Repeat(c, n) : c \in TitleRunChars, n \in RunLengths}

Titles == {p \o r \o q : p \in Edges, r \in Runs, q \in Edges}

InitFilename ==
    /\ fIn \in Titles
    /\ fRes = NoFilename
    /\ sIn = <<>>
    /\ sRes = NoResult
    /\ sStep = 0
    /\ error_log = <<>>
    /\ messages = <<>>
    /\ pc = "filename"
    /\ attempt = 0
    /\ inputs = 0
    /\ faults = 0
    /\ added = <<>>
    /\ atCall = <<>>
    /\ outcomes = <<>>
    /\ requests = 0
    /\ reported = 0
    /\ saved = "none"
    /\ files = {}
    /\ title = NoTitle
    /\ titleSample = <<>>
    /\ base_name = <<>>
    /\ ending = "none"

\* the call of _sanitize_filename on fIn
CallSanitizeFilename ==
    /\ pc = "filename"
    /\ ~fRes.called
    /\ fRes' = [called |-> TRUE, out |-> SanitizeFilename(fIn)]
    /\ UNCHANGED <<fIn, error_log, sessionVars, sanitizeVars>>

NextFilename == CallSanitizeFilename

SpecFilename == InitFilename /\ [][NextFilename]_vars

-----------------------------------------------------------------------------
(* Properties of the session, checked under Spec *)

SystemMessage == InitialHistory.out[1]

Turns(msgs) == SubSeq(msgs, 2, Len(msgs))

HasOutcome(o) == \E i \in 1..Len(outcomes) : outcomes[i] = o

LastOutcome == IF outcomes = <<>> THEN "none" ELSE outcomes[Len(outcomes)]

\* C1: whatever add_message and the re-sanitizing of stream_chat have done,
\* the history holds at most 11 entries and its first entry is the system
\* message the session started with.
C1_BoundedWithSystemFirst ==
    /\ Len(messages) >= 1
    /\ Len(messages) <= 11
    /\ messages[1] = SystemMessage

\* more than ten messages were added and the current stream_chat retried
C1_Witness ==
    /\ Len(added) > 10
    /\ HasOutcome("encoding")
    /\ LastOutcome = "ok"

\* after is before with exactly one message, of the assistant, added to it
OneAssistantAdded(before, after) ==
    LET m == after[Len(after)]
    IN  /\ m.role = "assistant"
        /\ after = IF Len(before) < 11
                   THEN Append(before, m)
                   ELSE <<before[1]>> \o SubSeq(before, 3, 11) \o <<m>>

\* C2: in one call of stream_chat, k < 3 attempts that fail with an encoding
\* failure followed by one that succeeds add exactly one assistant message
\* to the history, and three attempts that fail with an encoding failure
\* add none.
C2_OneAssistantMessage ==
    /\ outcomes \in {<<"ok">>, <<"encoding", "ok">>, <<"encoding", "encoding", "ok">>}
         => OneAssistantAdded(atCall, messages)
    /\ outcomes = <<"encoding", "encoding", "encoding">> => messages = atCall

\* two attempts failed with an encoding failure and the third succeeded
C2_Witness ==
    /\ outcomes = <<"encoding", "encoding", "ok">>
    /\ pc = "input"

\* C3: an attempt that fails with a failure that is not an encoding failure
\* ends stream_chat: no further request, one sanitized error message
\* reported, a normal return, and the history as it was at the call.
C3_OtherFailureReported ==
    LastOutcome = "other" =>
        /\ pc \notin {"chat", "crashed"}
        /\ reported = 1
        /\ messages = atCall

\* C4: after the system message the roles of the history alternate.
C4_RolesAlternate ==
    \A i \in 2..(Len(messages) - 1) : messages[i].role # messages[i + 1].role

\* the user messages of msgs that the next message, of the assistant, answers
CompleteExchanges(msgs) ==
    Cardinality({i \in 2..(Len(msgs) - 1) :
                    msgs[i].role = "user" /\ msgs[i + 1].role = "assistant"})

\* C5: save_conversation returns false and writes nothing when the history
\* records fewer than two complete exchanges, and returns true with both
\* files written when it records at least two.
C5_SavedIffTwoExchanges ==
    saved # "none" =>
        IF CompleteExchanges(messages) < 2
        THEN saved = "false" /\ files = {}
        ELSE saved = "true" /\ files = {"json", "txt"}

StartsWithExchanges(k) ==
    /\ Len(added) >= 2 * k
    /\ \A i \in 1..(2 * k) :
         added[i].role = IF i % 2 = 1 THEN "user" ELSE "assistant"

\* C7 as stated: after four complete exchanges, the ninth turn-message
\* evicts the earliest of the eight and the system message stays first.
C7_NinthEvicts ==
    (Len(added) = 9 /\ StartsWithExchanges(4)) =>
        /\ messages[1] = SystemMessage
        /\ Turns(messages) = SubSeq(added, 2, 9)

\* C7 as amended: after five complete exchanges (10 turn-messages), the
\* eleventh turn-message evicts the earliest of the ten and the system
\* message stays first.
C7_EleventhEvicts ==
    (Len(added) = 11 /\ StartsWithExchanges(5)) =>
        /\ messages[1] = SystemMessage
        /\ Turns(messages) = SubSeq(added, 2, 11)

\* five complete exchanges and an eleventh turn-message were added
C7_Witness ==
    /\ Len(added) = 11
    /\ StartsWithExchanges(5)

\* C8: after n calls of add_message the entries after the system message
\* are the last min(n, 10) messages added, in the order they were added.
C8_LastTenInOrder ==
    Turns(messages) =
        SubSeq(added, IF Len(added) > 10 THEN Len(added) - 9 ELSE 1, Len(added))

\* eleven messages were added, the first evicted, not as regular exchanges
C8_Witness ==
    /\ Len(added) >= 11
    /\ \E i \in 1..(Len(added) - 1) : added[i].role = added[i + 1].role

-----------------------------------------------------------------------------
(* Properties of sanitize, checked under SpecSanitize *)

NoSurrogate(text) == \A i \in 1..Len(text) : text[i] \notin Surrogates

\* C9: sanitize never raises to its caller: it returns corrected text or
\* the sentinel, also when a stage raises or the log cannot be written.
C9_NeverRaises ==
    sStep > 0 =>
        /\ ~sRes.raised
        /\ sRes.out = Sentinel \/ NoSurrogate(sRes.out)

\* C10: sanitize(sanitize(x)) = sanitize(x), and sanitize(x) holds no
\* surrogate, for the texts x over the characters of InputChars.
C10_IdempotentNoSurrogate ==
    /\ (sStep = 2 /\ ~sRes.raised) => sRes.out = sRes.in
    /\ (sStep > 0 /\ ~sRes.raised) => NoSurrogate(sRes.out)

\* sanitize changed a text with a surrogate and was applied to its result
C10_Witness ==
    /\ sStep = 2
    /\ ~sRes.raised
    /\ ~NoSurrogate(sIn)
    /\ sRes.in # sIn

-----------------------------------------------------------------------------
(* Properties of saving, checked under Spec *)

\* C11: when the save gate is met and _generate_title returned None (the
\* title request raised or its response was malformed), save_conversation
\* has written both files, under the name "None" followed by the timestamp,
\* and has returned True.
C11_SavedDespiteTitleFailure ==
    (pc = "done" /\ ShouldSave(messages) /\ title.none) =>
        /\ saved = "true"
        /\ files = {"json", "txt"}
        /\ base_name = <<"N", "o", "n", "e", "_", "timestamp">>

\* a conversation past the gate was saved after the title request failed
C11_Witness ==
    /\ pc = "done"
    /\ ShouldSave(messages)
    /\ titleSample # <<>>
    /\ title.none
    /\ saved = "true"

-----------------------------------------------------------------------------
(* Properties of the end of the session, checked under FairSpec *)

\* C12: the step that takes a KeyboardInterrupt, at the prompt or inside an
\* exchange, keeps the history and leaves the loop; from then on no line is
\* read and the history stays as it was; save_conversation is then called,
\* and its gate is the one applied after exit/quit: the result is True
\* exactly when the history satisfies should_save_conversation.
C12_InterruptKeepsHistoryAndSaves ==
    /\ [][(ending = "none" /\ ending' = "interrupt") =>
              (messages' = messages /\ pc' = "final")]_vars
    /\ [][ending = "interrupt" =>
              (inputs' = inputs /\ added' = added /\ messages' = messages)]_vars
    /\ (ending = "interrupt") ~> (saved # "none")
    /\ [](saved # "none" => (saved = "true" <=> ShouldSave(messages)))

\* an interrupt arrived between two attempts of an exchange and the
\* conversation was saved
C12_Witness ==
    /\ ending = "interrupt"
    /\ pc = "done"
    /\ LastOutcome = "encoding"
    /\ attempt < max_retries
    /\ saved = "true"

ExchangeFailed ==
    \/ LastOutcome = "other"
    \/ /\ Len(outcomes) = max_retries
       /\ \A i \in 1..Len(outcomes) : outcomes[i] = "encoding"

\* C13: the attempt that makes an exchange fail, by ending in a
\* non-encoding failure or by being the last of max_retries attempts that
\* ended in an encoding failure, does not end the session: it returns main
\* to its prompt, where only exit/quit or an interrupt leave the loop.
C13_FailureReturnsToPrompt ==
    [][(outcomes' # outcomes /\ ExchangeFailed') =>
           (pc' = "input" /\ ending' = "none")]_vars

-----------------------------------------------------------------------------
(* Properties of the error log, checked under SpecSanitize *)

IsPrefix(s, t) == Len(s) <= Len(t) /\ SubSeq(t, 1, Len(s)) = s

\* the records a call of sanitize is to append: one when what it returns
\* differs from its input or its try block raised, else none
RecordsDue(res) == IF res.raised \/ res.out # res.in THEN 1 ELSE 0

\* C14: a call of sanitize leaves the records already in error_log as they
\* are and appends exactly one record when its result differs from its
\* input or the pipeline raised, and none when the result equals the input.
C14_OneRecordPerChange ==
    [][sStep' = sStep + 1 =>
           /\ IsPrefix(error_log, error_log')
           /\ Len(error_log') - Len(error_log) = RecordsDue(sRes')]_vars

-----------------------------------------------------------------------------
(* Properties of _sanitize_filename, checked under SpecFilename *)

AsciiLetters == {"a", "e", "u", "x", "U", "c", "d", "f"}

Digits == {"0", "1", "2", "3", "4", "8", "9"}

PermittedInName(c) == c \in {"cjk", "_", " "} \cup AsciiLetters \cup Digits

\* C15: what _sanitize_filename returns has at most 30 characters, each a
\* CJK ideograph, an ASCII letter, a digit, an underscore or a space.
C15_ShortAndPermitted ==
    fRes.called =>
        /\ Len(fRes.out) <= 30
        /\ \A i \in 1..Len(fRes.out) : PermittedInName(fRes.out[i])

\* a title longer than the limit, holding a character that is not permitted,
\* was cut to the limit
C15_Witness ==
    /\ fRes.called
    /\ Len(fIn) > FilenameLimit
    /\ \E i \in 1..Len(fIn) : ~PermittedInName(fIn[i])
    /\ Len(fRes.out) = FilenameLimit

Last(text) == text[Len(text)]

\* C20 as stated: what _sanitize_filename returns neither starts nor ends
\* with a space.
C20_NoOuterSpace ==
    (fRes.called /\ fRes.out # <<>>) =>
        /\ Head(fRes.out) # " "
        /\ Last(fRes.out) # " "

\* C20: what _sanitize_filename returns does not start with a space, and it
\* does not end with one when it is shorter than 30 characters (the spaces
\* are stripped before the cut to 30 characters, not after it).
C20_TrimmedUnlessCut ==
    (fRes.called /\ fRes.out # <<>>) =>
        /\ Head(fRes.out) # " "
        /\ Len(fRes.out) < 30 => Last(fRes.out) # " "

\* a title with a space at either end gave a name shorter than the limit
C20_Witness ==
    /\ fRes.called
    /\ fIn # <<>>
    /\ Head(fIn) = " "
    /\ Last(fIn) = " "
    /\ fRes.out # <<>>
    /\ Len(fRes.out) < FilenameLimit

-----------------------------------------------------------------------------
(* Properties of the title request, checked under Spec *)

RECURSIVE FirstOfRole(_, _)
FirstOfRole(msgs, role) ==
    IF msgs = <<>> THEN <<>>
    ELSE IF Head(msgs).role = role THEN <<Head(msgs)>>
    ELSE FirstOfRole(Tail(msgs), role)

-----------------------------------------------------------------------------
(* Properties of the retries of stream_chat, checked under Spec *)

Roles(msgs) == [i \in 1..Len(msgs) |-> msgs[i].role]

\* C17: an attempt of stream_chat that ends in the handler of
\* UnicodeEncodeError, which sanitizes the history again, leaves the history
\* with as many entries as the attempt found, with the same roles in the
\* same order.
C17_RetryKeepsTurns ==
    [][(Len(outcomes') = Len(outcomes) + 1 /\ LastOutcome' = "encoding") =>
           /\ Len(messages') = Len(messages)
           /\ Roles(messages') = Roles(messages)]_vars

\* an attempt ended in an encoding failure after part of the stream had been
\* received, and the attempt made after it succeeded
C17_Witness ==
    /\ outcomes = <<"encoding", "ok">>
    /\ Len(messages) = Len(atCall) + 1
    /\ Roles(SubSeq(messages, 1, Len(atCall))) = Roles(atCall)

\* C18: a call of stream_chat ends after at most max_retries attempts: while
\* the call runs fewer than max_retries attempts have ended, every step
\* taken inside it either leaves it or ends one more attempt, and the call
\* has issued at most max_retries streaming requests.
C18_BoundedAttempts ==
    /\ [](requests <= max_retries)
    /\ [](pc = "chat" => (attempt < max_retries /\ requests = attempt))
    /\ [][pc = "chat" => (pc' # "chat" \/ attempt' = attempt + 1)]_vars

\* a call of stream_chat returned after max_retries requests, each ended by
\* an encoding failure
C18_Witness ==
    /\ pc = "input"
    /\ requests = max_retries
    /\ attempt = max_retries
    /\ \A i \in 1..Len(outcomes) : outcomes[i] = "encoding"

-----------------------------------------------------------------------------
(* Properties of the stored contents, checked under Spec *)

\* C19: every content in the history is a text that sanitize returns
\* unchanged, and holds no surrogate; this includes the assistant contents,
\* joined from fragments that were sanitized one by one.
C19_HistoryClean ==
    \A i \in 1..Len(messages) :
        /\ Sanitize(messages[i].content, <<>>, TRUE).out = messages[i].content
        /\ NoSurrogate(messages[i].content)

\* the history holds an assistant content whose fragments, each sanitized,
\* do not join to a text that sanitize leaves alone: a letter and its
\* combining accent arrived in two chunks and are stored composed
C19_Witness ==
    \E i \in 1..Len(messages) :
        /\ messages[i].role = "assistant"
        /\ messages[i].content = <<"eacute">>

====
